---- MODULE Spec2Model ----
(***************************************************************************)
(* Model of src/bot.py: the subscription store (sqlite table guarded by    *)
(* db_lock), the four Telegram handlers (start_command, handle_photo,      *)
(* handle_callback, approve_command) and the expiry query.                 *)
(*                                                                         *)
(* Strings are sequences of one-character strings, so that str.split and   *)
(* int() are modelled by what they do to the characters.  Each handler is  *)
(* an operator from (store, clock, input, failure oracle) to the store it  *)
(* leaves, the clock at its end, the list of calls it made and whether an  *)
(* exception left it; the actions apply these operators.                   *)
(*                                                                         *)
(* Spec runs one operation at a time.  SpecConc runs webhook requests and  *)
(* store jobs side by side, one thread each, a step per call and per step  *)
(* of a store function around db_lock.                                     *)
(***************************************************************************)
EXTENDS Integers, Sequences, FiniteSets, TLC

VARIABLES store, now, pre, last, thr, lock, arrivals, commits

vars == <<store, now, pre, last, thr, lock, arrivals, commits>>

\* the state of the webhook requests and jobs that run side by side
cvars == <<thr, lock, arrivals, commits>>

(* ------------------------------ bounds --------------------------------- *)

\* the clock takes the values StartTime .. StartTime + MaxNow
MaxNow == 1
\* seconds that may pass inside one handler between two of its time.time() reads
MaxDelay == 1
\* number of words after the command name in an approve command
MaxArgs == 2
\* number of webhook requests and jobs in progress at the same time
MaxThreads == 2

(* ----------------------- configuration (bot.py 22-45) ------------------ *)

StartTime == 1700000000
SecondsPerDay == 86400
DefaultDays == 30
MemberLimit == 1

ADMIN_IDS == <<1, 2>>
PRIVATE_CHANNEL_ID == -100

Admins == {ADMIN_IDS[i] : i \in DOMAIN ADMIN_IDS}
\* the admin test passing for every sender
IsAdminAnyone(id) == TRUE

\* id in ADMIN_IDS
IsAdmin(id) == \E i \in DOMAIN ADMIN_IDS : ADMIN_IDS[i] = id

\* identities that send events: the admins and an account that is no admin
Senders == Admins \cup {5}
\* senders of the approve command and of photos: one admin, one other account
CommandSenders == {ADMIN_IDS[1], 5}

(* ------------------------------ strings -------------------------------- *)

Digits == <<"0", "1", "2", "3", "4", "5", "6", "7", "8", "9">>
IsDigit(c) == \E i \in DOMAIN Digits : Digits[i] = c
DigitVal(c) == (CHOOSE i \in DOMAIN Digits : Digits[i] = c) - 1
IsSpace(c) == c \in {" ", "\t", "\n"}

RECURSIVE LStrip(_)
LStrip(s) == IF s # <<>> /\ IsSpace(Head(s)) THEN LStrip(Tail(s)) ELSE s

RECURSIVE RStrip(_)
RStrip(s) ==
  IF s # <<>> /\ IsSpace(s[Len(s)]) THEN RStrip(SubSeq(s, 1, Len(s) - 1)) ELSE s

Strip(s) == RStrip(LStrip(s))

\* value of a non-empty run of digits, most significant first
RECURSIVE DigitsVal(_, _)
DigitsVal(s, acc) ==
  IF s = <<>> THEN acc ELSE DigitsVal(Tail(s), acc * Len(Digits) + DigitVal(Head(s)))

AllDigits(s) == s # <<>> /\ \A i \in DOMAIN s : IsDigit(s[i])

\* Python int(str): surrounding whitespace is dropped, one optional sign, then
\* decimal digits; anything else raises ValueError (ok = FALSE).  The words of
\* the model hold no "_" and no digits outside 0-9, which int() also reads.
PyInt(str) ==
  LET s == Strip(str)
      signed == s # <<>> /\ Head(s) \in {"+", "-"}
      body == IF signed THEN Tail(s) ELSE s
  IN IF AllDigits(body)
       THEN [ok |-> TRUE,
             val |-> IF signed /\ Head(s) = "-" THEN 0 - DigitsVal(body, 0)
                     ELSE DigitsVal(body, 0)]
       ELSE [ok |-> FALSE, val |-> 0]

\* Python str(int) of the f-strings: decimal digits, "-" in front of a negative
RECURSIVE NatStr(_)
NatStr(n) ==
  IF n < Len(Digits) THEN <<Digits[n + 1]>>
  ELSE NatStr(n \div Len(Digits)) \o <<Digits[(n % Len(Digits)) + 1]>>

PyStr(n) == IF n < 0 THEN <<"-">> \o NatStr(0 - n) ELSE NatStr(n)

\* Python s.split(sep) for a one-character sep: the pieces between separators
RECURSIVE SplitAcc(_, _, _, _)
SplitAcc(s, sep, cur, acc) ==
  IF s = <<>> THEN Append(acc, cur)
  ELSE IF Head(s) = sep THEN SplitAcc(Tail(s), sep, <<>>, Append(acc, cur))
  ELSE SplitAcc(Tail(s), sep, Append(cur, Head(s)), acc)

Split(s, sep) == SplitAcc(s, sep, <<>>, <<>>)

APPROVE == <<"a", "p", "p", "r", "o", "v", "e">>
DECLINE == <<"d", "e", "c", "l", "i", "n", "e">>
COLON == ":"

(* ------------------- subscription store (bot.py 47-92) ----------------- *)

\* a row of table subscriptions(user_id INTEGER PRIMARY KEY, expiry_date)
Row(user_id, expiry_date) == [user_id |-> user_id, expiry_date |-> expiry_date]

\* a renewal added to the time the old row has left
add_subscription_extend(st, t, user_id, days) ==
  LET old == {r \in st : r.user_id = user_id /\ r.expiry_date > t}
      base == IF old = {} THEN t ELSE (CHOOSE r \in old : TRUE).expiry_date
  IN {r \in st : r.user_id # user_id} \cup {Row(user_id, base + days * SecondsPerDay)}

\* the table rewritten to hold the new row only
add_subscription_truncate(st, t, user_id, days) == {Row(user_id, t + days * SecondsPerDay)}

\* REPLACE INTO: rows in conflict on the primary key are deleted, then the
\* new row is inserted; expiry is read from the clock before the lock is taken
add_subscription(st, t, user_id, days) ==
  LET expiry == t + days * SecondsPerDay
  IN {r \in st : r.user_id # user_id} \cup {Row(user_id, expiry)}

\* the statement without its WHERE clause
remove_subscription_all(st, user_id) == {}

\* DELETE FROM subscriptions WHERE user_id = ?
remove_subscription(st, user_id) == {r \in st : r.user_id # user_id}

\* SELECT user_id ... WHERE expiry_date <= ?, rows visited in primary-key
\* order, the list built by the comprehension of line 90
RECURSIVE ScanExpired(_, _)
ScanExpired(rows, t) ==
  IF rows = {} THEN <<>>
  ELSE LET r == CHOOSE x \in rows : \A y \in rows : x.user_id <= y.user_id
           rest == ScanExpired(rows \ {r}, t)
       IN IF r.expiry_date <= t THEN <<r.user_id>> \o rest ELSE rest

\* the boundary left out: expiry_date < ?
get_expired_users_strict(st, t) == ScanExpired({r \in st : r.expiry_date # t}, t)

get_expired_users(st, t) == ScanExpired(st, t)

(* ------------------------- gateway calls ------------------------------- *)

\* names of the call sites of a handler that the failure oracle may fail
CallSites == {"db", "answer", "respond", "invite", "notify", "respond_err"}

\* the failure oracles that differ in what a handler does: the first call to
\* fail decides the path, and only the except branch makes a call after it
Oracles ==
  <<{}, {"db"}, {"answer"}, {"respond"}, {"invite"}, {"notify"},
    {"respond", "respond_err"}, {"invite", "respond_err"}, {"notify", "respond_err"}>>

\* the oracles of a handler whose only call that can raise is its reply
ReplyOracles == {{}, {"respond"}}

\* a run of a handler: who sent the event, its data, the index of the oracle
\* in Oracles and the seconds that pass inside the handler
Runs(senders, inputs) == [from : senders, data : inputs, i : DOMAIN Oracles, dt : 0..MaxDelay]

Earlier(q, r) == q.dt < r.dt \/ (q.dt = r.dt /\ q.i < r.i)

Failed(site, F) == site \in F

\* one entry of the list of calls a handler made, in order
Text(call, site, to, text, uid, days, F) ==
  [call |-> call, to |-> to, text |-> text, uid |-> uid, days |-> days,
   ok |-> ~Failed(site, F)]

Invite(t, days, F) ==
  [call |-> "create_chat_invite_link", to |-> PRIVATE_CHANNEL_ID,
   member_limit |-> MemberLimit, expire_date |-> t + days * SecondsPerDay,
   ok |-> ~Failed("invite", F)]

\* the call of add_subscription; it raises when sqlite does ("db" fails)
Grant(user_id, days, F) ==
  [call |-> "add_subscription", to |-> user_id, days |-> days, ok |-> ~Failed("db", F)]

\* what a handler leaves: the store, the clock at its end, its calls, and
\* whether an exception propagated out of it
Outcome(st, t, log, raised) == [store |-> st, now |-> t, log |-> log, raised |-> raised]

(* ---------------------- handlers (bot.py 100-189) ---------------------- *)

UNAUTHORIZED == "Unauthorized."
USAGE == "Usage: /approve <user_id> [days]"
INVALID == "Invalid arguments."
WELCOME == "Welcome! ... please send a screenshot of your payment."
FORWARDED == "Your screenshot has been sent to the admins."
APPROVED == "Approved user {user_id}."
APPROVED_DAYS == "Approved user {user_id} for {days} days."
DECLINED == "Declined user {user_id}."
FAILED == "Approval failed: {e}"
LINK == "Your payment has been approved! Here is your {days}-day invite link"
LINK_DAYS == "An admin approved your subscription for {days} days! Link"

\* start_command: one reply_text
start_command(st, t, from, F) ==
  LET r == Text("reply_text", "respond", from, WELCOME, from, 0, F)
  IN Outcome(st, t, <<r>>, ~r.ok)

\* the send_photo of lines 120-125 to ADMIN_IDS[i]; PF is the set of admins
\* for which it raises (caught by the except of line 126)
SendPhoto(i, from, PF) ==
  [call |-> "send_photo", to |-> ADMIN_IDS[i], uid |-> from,
   data |-> <<APPROVE \o <<COLON>> \o PyStr(from), DECLINE \o <<COLON>> \o PyStr(from)>>,
   ok |-> ADMIN_IDS[i] \notin PF]

\* the loop without its try: the first send_photo that raises ends the handler
handle_photo_abort(st, t, from, F, PF) ==
  LET fanout == [i \in DOMAIN ADMIN_IDS |-> SendPhoto(i, from, PF)]
      bad == {i \in DOMAIN fanout : ~fanout[i].ok}
      r == Text("reply_text", "respond", from, FORWARDED, from, 0, F)
  IN IF bad = {} THEN Outcome(st, t, fanout \o <<r>>, ~r.ok)
     ELSE Outcome(st, t, SubSeq(fanout, 1, CHOOSE i \in bad : \A j \in bad : i <= j), TRUE)

\* handle_photo: the loop over ADMIN_IDS, then the reply_text of line 129
handle_photo(st, t, from, F, PF) ==
  LET fanout == [i \in DOMAIN ADMIN_IDS |-> SendPhoto(i, from, PF)]
      r == Text("reply_text", "respond", from, FORWARDED, from, 0, F)
  IN Outcome(st, t, fanout \o <<r>>, ~r.ok)

\* a try body of three awaited calls: the first that raises ends it
Tried(inv, msg, done) ==
  IF ~inv.ok THEN <<inv>> ELSE IF ~msg.ok THEN <<inv, msg>> ELSE <<inv, msg, done>>

\* the except clause: its call is made when a call of the try body raised
CaughtSilently(tried, err) == tried

Caught(tried, err) == IF tried[Len(tried)].ok THEN tried ELSE Append(tried, err)

\* the credential requested before the grant is made
DecisionApproveLinkFirst(st, t, dt, admin, user_id, days, F) ==
  LET g == Grant(user_id, days, F)
      st1 == add_subscription(st, t + dt, user_id, days)
      inv == Invite(t, days, F)
      msg == Text("send_message", "notify", user_id, LINK, user_id, days, F)
      done == Text("edit_message_text", "respond", admin, APPROVED, user_id, days, F)
      err == Text("edit_message_text", "respond_err", admin, FAILED, user_id, days, F)
      calls == Caught(Tried(inv, msg, done), err)
  IN IF ~g.ok THEN Outcome(st, t + dt, calls \o <<g>>, TRUE)
     ELSE Outcome(st1, t + dt, calls \o <<g>>, ~calls[Len(calls)].ok)

\* lines 145-158 of handle_callback, with the literal 30 of lines 63 and 150
\* as the parameter days; dt is the time that passes between the clock read
\* of add_subscription and the one of line 150
DecisionApprove(st, t, dt, admin, user_id, days, F) ==
  LET g == Grant(user_id, days, F)
      st1 == add_subscription(st, t, user_id, days)
      t1 == t + dt
      inv == Invite(t1, days, F)
      msg == Text("send_message", "notify", user_id, LINK, user_id, days, F)
      done == Text("edit_message_text", "respond", admin, APPROVED, user_id, days, F)
      err == Text("edit_message_text", "respond_err", admin, FAILED, user_id, days, F)
      calls == Caught(Tried(inv, msg, done), err)
  IN IF ~g.ok THEN Outcome(st, t, <<g>>, TRUE)
     ELSE Outcome(st1, t1, <<g>> \o calls, ~calls[Len(calls)].ok)

\* a decline that also revokes the user's subscription
handle_callback_decline_revokes(st, t, dt, from, data, F) ==
  LET a == [call |-> "answer", to |-> from, ok |-> ~Failed("answer", F)]
      parts == Split(data, COLON)
      id == PyInt(parts[2])
      denied == Text("edit_message_text", "respond", from, UNAUTHORIZED, from, 0, F)
  IN IF ~a.ok THEN Outcome(st, t, <<a>>, TRUE)
     ELSE IF ~IsAdmin(from) THEN Outcome(st, t, <<a, denied>>, ~denied.ok)
     ELSE IF Len(parts) # 2 THEN Outcome(st, t, <<a>>, TRUE)
     ELSE IF ~id.ok THEN Outcome(st, t, <<a>>, TRUE)
     ELSE IF parts[1] = APPROVE
       THEN LET o == DecisionApprove(st, t, dt, from, id.val, DefaultDays, F)
            IN Outcome(o.store, o.now, <<a>> \o o.log, o.raised)
     ELSE IF parts[1] = DECLINE
       THEN LET d == Text("edit_message_text", "respond", from, DECLINED, id.val, 0, F)
            IN Outcome(remove_subscription(st, id.val), t, <<a, d>>, ~d.ok)
     ELSE Outcome(st, t, <<a>>, FALSE)

\* handle_callback: answer, the admin test, the parse of the token, the branch
handle_callback(st, t, dt, from, data, F) ==
  LET a == [call |-> "answer", to |-> from, ok |-> ~Failed("answer", F)]
      parts == Split(data, COLON)
      id == PyInt(parts[2])
      denied == Text("edit_message_text", "respond", from, UNAUTHORIZED, from, 0, F)
  IN IF ~a.ok THEN Outcome(st, t, <<a>>, TRUE)
     ELSE IF ~IsAdmin(from) THEN Outcome(st, t, <<a, denied>>, ~denied.ok)
     ELSE IF Len(parts) # 2 THEN Outcome(st, t, <<a>>, TRUE)
     ELSE IF ~id.ok THEN Outcome(st, t, <<a>>, TRUE)
     ELSE IF parts[1] = APPROVE
       THEN LET o == DecisionApprove(st, t, dt, from, id.val, DefaultDays, F)
            IN Outcome(o.store, o.now, <<a>> \o o.log, o.raised)
     ELSE IF parts[1] = DECLINE
       THEN LET d == Text("edit_message_text", "respond", from, DECLINED, id.val, 0, F)
            IN Outcome(st, t, <<a, d>>, ~d.ok)
     ELSE Outcome(st, t, <<a>>, FALSE)

\* the days argument not passed on to add_subscription
CommandApproveDefaultGrant(st, t, dt, admin, user_id, days, F) ==
  LET g == Grant(user_id, DefaultDays, F)
      st1 == add_subscription(st, t, user_id, DefaultDays)
      t1 == t + dt
      inv == Invite(t1, days, F)
      msg == Text("send_message", "notify", user_id, LINK_DAYS, user_id, days, F)
      done == Text("reply_text", "respond", admin, APPROVED_DAYS, user_id, days, F)
      err == Text("reply_text", "respond_err", admin, FAILED, user_id, days, F)
      calls == Caught(Tried(inv, msg, done), err)
  IN IF ~g.ok THEN Outcome(st, t, <<g>>, TRUE)
     ELSE Outcome(st1, t1, <<g>> \o calls, ~calls[Len(calls)].ok)

\* the credential's expiry copied from handle_callback: 30 days, not days
CommandApproveFixedExpiry(st, t, dt, admin, user_id, days, F) ==
  LET g == Grant(user_id, days, F)
      st1 == add_subscription(st, t, user_id, days)
      t1 == t + dt
      inv == Invite(t1, DefaultDays, F)
      msg == Text("send_message", "notify", user_id, LINK_DAYS, user_id, days, F)
      done == Text("reply_text", "respond", admin, APPROVED_DAYS, user_id, days, F)
      err == Text("reply_text", "respond_err", admin, FAILED, user_id, days, F)
      calls == Caught(Tried(inv, msg, done), err)
  IN IF ~g.ok THEN Outcome(st, t, <<g>>, TRUE)
     ELSE Outcome(st1, t1, <<g>> \o calls, ~calls[Len(calls)].ok)

\* lines 176-189 of approve_command
CommandApprove(st, t, dt, admin, user_id, days, F) ==
  LET g == Grant(user_id, days, F)
      st1 == add_subscription(st, t, user_id, days)
      t1 == t + dt
      inv == Invite(t1, days, F)
      msg == Text("send_message", "notify", user_id, LINK_DAYS, user_id, days, F)
      done == Text("reply_text", "respond", admin, APPROVED_DAYS, user_id, days, F)
      err == Text("reply_text", "respond_err", admin, FAILED, user_id, days, F)
      calls == Caught(Tried(inv, msg, done), err)
  IN IF ~g.ok THEN Outcome(st, t, <<g>>, TRUE)
     ELSE Outcome(st1, t1, <<g>> \o calls, ~calls[Len(calls)].ok)

\* the days argument not validated: a word int() rejects counts as 30
approve_command_days_unchecked(st, t, dt, from, args, F) ==
  LET denied == Text("reply_text", "respond", from, UNAUTHORIZED, from, 0, F)
      usage == Text("reply_text", "respond", from, USAGE, from, 0, F)
      invalid == Text("reply_text", "respond", from, INVALID, from, 0, F)
      id == PyInt(args[1])
      days == IF Len(args) > 1 /\ PyInt(args[2]).ok THEN PyInt(args[2])
              ELSE [ok |-> TRUE, val |-> DefaultDays]
  IN IF ~IsAdmin(from) THEN Outcome(st, t, <<denied>>, ~denied.ok)
     ELSE IF Len(args) < 1 THEN Outcome(st, t, <<usage>>, ~usage.ok)
     ELSE IF ~id.ok THEN Outcome(st, t, <<invalid>>, ~invalid.ok)
     ELSE CommandApprove(st, t, dt, from, id.val, days.val, F)

\* approve_command: the admin test, the argument checks, then the grant
approve_command(st, t, dt, from, args, F) ==
  LET denied == Text("reply_text", "respond", from, UNAUTHORIZED, from, 0, F)
      usage == Text("reply_text", "respond", from, USAGE, from, 0, F)
      invalid == Text("reply_text", "respond", from, INVALID, from, 0, F)
      id == PyInt(args[1])
      days == IF Len(args) > 1 THEN PyInt(args[2]) ELSE [ok |-> TRUE, val |-> DefaultDays]
  IN IF ~IsAdmin(from) THEN Outcome(st, t, <<denied>>, ~denied.ok)
     ELSE IF Len(args) < 1 THEN Outcome(st, t, <<usage>>, ~usage.ok)
     ELSE IF ~id.ok \/ ~days.ok THEN Outcome(st, t, <<invalid>>, ~invalid.ok)
     ELSE CommandApprove(st, t, dt, from, id.val, days.val, F)

(* ------------------------------ inputs --------------------------------- *)

\* callback data: the tokens handle_photo puts on its buttons for the two
\* accounts, and tokens of other shapes
CallbackData ==
  { APPROVE \o <<COLON>> \o PyStr(5), DECLINE \o <<COLON>> \o PyStr(5),
    APPROVE \o <<COLON>> \o PyStr(555),
    APPROVE \o <<COLON, "x">>, <<"f", "o", "o", COLON, "5">>, APPROVE }

\* words of an approve command (context.args holds no whitespace)
IdWords == {<<"5", "5", "5">>, <<"x">>}
DayWords == {<<"7">>, <<"-", "1">>, <<"7", "d">>}
\* words after the second are not read
ExtraWords == {<<"z">>}

ArgLists ==
  UNION {{a \in [1..n -> IdWords \cup DayWords \cup ExtraWords] :
            \A i \in 1..n : a[i] \in (IF i = 1 THEN IdWords
                                       ELSE IF i = 2 THEN DayWords ELSE ExtraWords)} :
         n \in 0..MaxArgs}

\* tables a database file left by an earlier run may hold
InitialStores == {{}, {Row(5, StartTime + 1), Row(555, StartTime - 1)}}

UserIds == {r.user_id : r \in UNION InitialStores}

\* The path of a handler depends on the sender, the data and the oracle, never
\* on the store or the clock, so two runs that leave the same outcome from one
\* state do so from every state: each outcome is enumerated once, with the
\* earliest oracle and the shortest delay that produce it.
CallbackRuns ==
  LET all == Runs(Senders, CallbackData)
      out(r) == handle_callback({}, StartTime, r.dt, r.from, r.data, Oracles[r.i])
  IN {r \in all : ~\E q \in all : /\ q.from = r.from /\ q.data = r.data
                                    /\ Earlier(q, r) /\ out(q) = out(r)}

ApproveRuns ==
  LET all == Runs(CommandSenders, ArgLists)
      out(r) == approve_command({}, StartTime, r.dt, r.from, r.data, Oracles[r.i])
  IN {r \in all : ~\E q \in all : /\ q.from = r.from /\ q.data = r.data
                                    /\ Earlier(q, r) /\ out(q) = out(r)}

(* ------------------------------ actions -------------------------------- *)

\* the record of the operation that ran last: its input, the calls it made,
\* whether it raised, and what it returned
Event(kind, from, data, o) ==
  [kind |-> kind, from |-> from, data |-> data, log |-> o.log, raised |-> o.raised,
   ret |-> <<>>]

Idle(kind, data, ret) ==
  [kind |-> kind, from |-> 0, data |-> data, log |-> <<>>, raised |-> FALSE, ret |-> ret]

\* the store and the clock an operation started from
Before == [store |-> store, now |-> now]

\* the server threads; each serves one webhook request or runs one job
Threads == 1..MaxThreads

\* a thread that has not been given a request
IdleThread ==
  [pc |-> "idle", req |-> 0, pos |-> 0, t0 |-> 0, raised |-> FALSE, status |-> 0]

\* no request has arrived; db_lock = threading.Lock() is free (0: no holder)
NoRequests ==
  /\ thr = [t \in Threads |-> IdleThread]
  /\ lock = 0
  /\ arrivals = <<>>
  /\ commits = <<>>

Init ==
  /\ store \in InitialStores
  /\ now = StartTime
  /\ pre = [store |-> store, now |-> now]
  /\ last = Idle("init", <<>>, <<>>)
  /\ NoRequests

Tick ==
  /\ now < StartTime + MaxNow
  /\ now' = now + 1
  /\ pre' = Before
  /\ last' = Idle("tick", <<>>, <<>>)
  /\ UNCHANGED store
  /\ UNCHANGED cvars

Start ==
  \E from \in Senders, F \in ReplyOracles :
    LET o == start_command(store, now, from, F)
    IN /\ pre' = Before
       /\ store' = o.store
       /\ now' = o.now
       /\ last' = Event("start", from, <<>>, o)
       /\ UNCHANGED cvars

Photo ==
  \E from \in CommandSenders, F \in ReplyOracles, PF \in SUBSET Admins :
    LET o == handle_photo(store, now, from, F, PF)
    IN /\ pre' = Before
       /\ store' = o.store
       /\ now' = o.now
       /\ last' = Event("photo", from, <<>>, o)
       /\ UNCHANGED cvars

Callback ==
  \E r \in CallbackRuns :
    LET o == handle_callback(store, now, r.dt, r.from, r.data, Oracles[r.i])
    IN /\ now + r.dt <= StartTime + MaxNow
       /\ pre' = Before
       /\ store' = o.store
       /\ now' = o.now
       /\ last' = Event("callback", r.from, r.data, o)
       /\ UNCHANGED cvars

Approve ==
  \E r \in ApproveRuns :
    LET o == approve_command(store, now, r.dt, r.from, r.data, Oracles[r.i])
    IN /\ now + r.dt <= StartTime + MaxNow
       /\ pre' = Before
       /\ store' = o.store
       /\ now' = o.now
       /\ last' = Event("approve", r.from, r.data, o)
       /\ UNCHANGED cvars

\* the external revocation job calls remove_subscription
Revoke ==
  \E user_id \in UserIds :
    /\ pre' = Before
    /\ store' = remove_subscription(store, user_id)
    /\ last' = Idle("revoke", user_id, <<>>)
    /\ UNCHANGED now
    /\ UNCHANGED cvars

\* the expiry scanner calls get_expired_users, with the clock (now=None) or
\* with a time of its own
Expired ==
  \E t \in {now} \cup {r.expiry_date : r \in store} \cup {r.expiry_date - 1 : r \in store} :
    /\ pre' = Before
    /\ last' = Idle("expired", t, get_expired_users(store, t))
    /\ UNCHANGED <<store, now>>
    /\ UNCHANGED cvars

Next == Tick \/ Start \/ Photo \/ Callback \/ Approve \/ Revoke \/ Expired

Spec == Init /\ [][Next]_vars

(* ------- concurrent requests and jobs (bot.py 49, 63-92, 219-238) ------ *)

\* the status of both return statements of webhook
HttpOK == 200

\* the user the concurrent requests are about
TargetWord == <<"5", "5", "5">>
Target == PyInt(TargetWord).val

\* a webhook request whose body request.get_json reads: the calls its handler
\* makes, in order, and whether an exception leaves the handler
WebRequest(o) == [web |-> TRUE, json |-> TRUE, script |-> o.log, raised |-> o.raised]

\* a webhook request whose body request.get_json cannot read
BadRequest == [web |-> TRUE, json |-> FALSE, script |-> <<>>, raised |-> TRUE]

\* a job outside the webhook that makes one store call
Job(call, user_id) ==
  [web |-> FALSE, json |-> TRUE,
   script |-> <<[call |-> call, to |-> user_id, days |-> 0, ok |-> TRUE]>>,
   raised |-> FALSE]

\* what the threads may be given: a decision approval, the same while sqlite
\* raises, the same while the invite link cannot be made, an approve command
\* for 7 days, an unreadable body, the revocation job and the expiry scan
Requests ==
  << WebRequest(handle_callback({}, StartTime, 0, ADMIN_IDS[1],
                                APPROVE \o <<COLON>> \o TargetWord, {})),
     WebRequest(handle_callback({}, StartTime, 0, ADMIN_IDS[1],
                                APPROVE \o <<COLON>> \o TargetWord, {"db"})),
     WebRequest(handle_callback({}, StartTime, 0, ADMIN_IDS[1],
                                APPROVE \o <<COLON>> \o TargetWord, {"invite"})),
     WebRequest(approve_command({}, StartTime, 0, ADMIN_IDS[1],
                                <<TargetWord, <<"7">>>>, {})),
     BadRequest,
     Job("remove_subscription", Target),
     Job("get_expired_users", 0) >>

Req(t) == Requests[thr[t].req]

\* the call thread t makes next
Step(t) == Req(t).script[thr[t].pos]

StoreCalls == {"add_subscription", "remove_subscription", "get_expired_users"}

\* the two of them that start with int(time.time()) (lines 64 and 85)
ClockCalls == {"add_subscription", "get_expired_users"}

\* positions of a thread between the __enter__ and the __exit__ of
\* "with db_lock"
DbSection == {"execute", "exit"}

\* the guard of the lock ignored: acquire succeeds while another thread holds it
FreeAlways(l) == TRUE

\* threading.Lock.acquire returns once no thread holds the lock
Free(l) == l = 0

\* the lock kept when the body of the with statement raised
with_exit_leak(l, raised) == IF raised THEN l ELSE 0

\* __exit__ of "with db_lock": releases, whether or not the body raised
with_exit(l, raised) == 0

\* a 500 answered when the update could not be parsed or processed
webhook_status_error(raised) == IF raised THEN 500 ELSE HttpOK

\* the status webhook returns: line 235 after process(), line 238 from the
\* except clause
webhook_status(raised) == IF raised THEN HttpOK ELSE HttpOK

\* thread th after entry th.pos of the script of r: the next entry (a call of
\* the Messaging Gateway is in flight, or a store function is about to be
\* entered), or the end of the handler (asyncio.run returns or raises), or the
\* end of the job
Advance(th, r) ==
  IF th.pos < Len(r.script)
    THEN [th EXCEPT !.pos = @ + 1,
                    !.pc = IF r.script[th.pos + 1].call \in StoreCalls
                           THEN "store" ELSE "call"]
  ELSE IF r.web THEN [th EXCEPT !.pos = @ + 1, !.pc = "return", !.raised = r.raised]
  ELSE [th EXCEPT !.pos = @ + 1, !.pc = "done"]

\* threads are taken from the pool in order
NextInPool(t) == thr[t].pc = "idle" /\ \A u \in Threads : u < t => thr[u].pc # "idle"

\* a POST /webhook arrives and a thread enters webhook()
Arrive(t) ==
  /\ NextInPool(t)
  /\ \E k \in DOMAIN Requests :
       /\ Requests[k].web
       /\ thr' = [thr EXCEPT ![t] = [@ EXCEPT !.pc = "get_json", !.req = k]]
  /\ arrivals' = Append(arrivals, t)
  /\ UNCHANGED <<store, now, pre, last, lock, commits>>

\* a job starts its store call
StartJob(t) ==
  /\ NextInPool(t)
  /\ \E k \in DOMAIN Requests :
       /\ ~Requests[k].web
       /\ thr' = [thr EXCEPT ![t] = [@ EXCEPT !.pc = "store", !.req = k, !.pos = 1]]
  /\ UNCHANGED <<store, now, pre, last, lock, arrivals, commits>>

\* line 229: the body is read, or the exception goes to the except of line 236
Parse(t) ==
  /\ thr[t].pc = "get_json"
  /\ thr' = [thr EXCEPT ![t] = IF Req(t).json THEN Advance(@, Req(t))
                               ELSE [@ EXCEPT !.pc = "return", !.raised = TRUE]]
  /\ UNCHANGED <<store, now, pre, last, lock, arrivals, commits>>

\* an awaited call of the Messaging Gateway returns or raises; the script
\* holds what the handler does next
EndCall(t) ==
  /\ thr[t].pc = "call"
  /\ thr' = [thr EXCEPT ![t] = Advance(@, Req(t))]
  /\ UNCHANGED <<store, now, pre, last, lock, arrivals, commits>>

\* a store function is entered: lines 64 and 85 read the clock before the
\* with statement
Enter(t) ==
  /\ thr[t].pc = "store"
  /\ thr' = [thr EXCEPT ![t].pc = "acquire",
                        ![t].t0 = IF Step(t).call \in ClockCalls THEN now ELSE 0]
  /\ UNCHANGED <<store, now, pre, last, lock, arrivals, commits>>

\* "with db_lock:" is entered
Acquire(t) ==
  /\ thr[t].pc = "acquire"
  /\ Free(lock)
  /\ lock' = t
  /\ thr' = [thr EXCEPT ![t].pc = "execute"]
  /\ UNCHANGED <<store, now, pre, last, arrivals, commits>>

\* what a committed statement wrote, for the record of commits
Written(t) ==
  [call |-> Step(t).call, user_id |-> Step(t).to, thread |-> t,
   expiry_date |-> IF Step(t).call = "add_subscription"
                   THEN thr[t].t0 + Step(t).days * SecondsPerDay ELSE 0]

\* connect, execute and commit inside the with statement, or sqlite raises
Execute(t) ==
  /\ thr[t].pc = "execute"
  /\ store' = IF ~Step(t).ok THEN store
              ELSE IF Step(t).call = "add_subscription"
                THEN add_subscription(store, thr[t].t0, Step(t).to, Step(t).days)
              ELSE IF Step(t).call = "remove_subscription"
                THEN remove_subscription(store, Step(t).to)
              ELSE store
  /\ commits' = IF Step(t).ok /\ Step(t).call # "get_expired_users"
                THEN Append(commits, Written(t)) ELSE commits
  /\ thr' = [thr EXCEPT ![t].pc = "exit"]
  /\ UNCHANGED <<now, pre, last, lock, arrivals>>

\* the with statement is left
Exit(t) ==
  /\ thr[t].pc = "exit"
  /\ lock' = with_exit(lock, ~Step(t).ok)
  /\ thr' = [thr EXCEPT ![t] = Advance(@, Req(t))]
  /\ UNCHANGED <<store, now, pre, last, arrivals, commits>>

\* webhook returns
Return(t) ==
  /\ thr[t].pc = "return"
  /\ thr' = [thr EXCEPT ![t].pc = "done", ![t].status = webhook_status(thr[t].raised)]
  /\ UNCHANGED <<store, now, pre, last, lock, arrivals, commits>>

\* the clock advances while requests are in progress
ConcTick ==
  /\ now < StartTime + MaxNow
  /\ now' = now + 1
  /\ UNCHANGED <<store, pre, last, thr, lock, arrivals, commits>>

ConcNext ==
  \/ ConcTick
  \/ \E t \in Threads :
       \/ Arrive(t) \/ StartJob(t) \/ Parse(t) \/ EndCall(t)
       \/ Enter(t) \/ Acquire(t) \/ Execute(t) \/ Exit(t) \/ Return(t)

SpecConc == Init /\ [][ConcNext]_vars

(* ------------------------- reading the last run ------------------------ *)

Entries(call) == {i \in DOMAIN last.log : last.log[i].call = call}
GrantCalls == Entries("add_subscription")
InviteCalls == Entries("create_chat_invite_link")
NotifyCalls == Entries("send_message")
\* the texts shown to the sender of the event
Responses == Entries("reply_text") \cup Entries("edit_message_text")
FinalCall == last.log[Len(last.log)]

\* the action token {action, user_id} a callback carries, if it is one
Token(data) ==
  LET parts == Split(data, COLON)
  IN IF Len(parts) = 2 /\ PyInt(parts[2]).ok
       THEN [ok |-> TRUE, action |-> parts[1], user_id |-> PyInt(parts[2]).val]
       ELSE [ok |-> FALSE, action |-> <<>>, user_id |-> 0]

\* the last event was a decision callback that reached the branch of line 144
\* with action = "approve"
ApproveDecision ==
  /\ last.kind = "callback"
  /\ last.from \in Admins
  /\ Token(last.data).ok /\ Token(last.data).action = APPROVE
  /\ last.log[1].ok

(* ------------------------------ claims --------------------------------- *)

\* C1: an event from an identity outside the admin set (a decision callback
\* with any token, an approve command with any arguments) leaves the store as
\* it was, makes no grant, requests no credential and notifies nobody; the only
\* text it shows is "Unauthorized.", which is the handler's final call to the
\* sender (unless query.answer() itself raised before the admin test).
C1_NonAdminNeverMutates ==
  (last.kind \in {"callback", "approve"} /\ last.from \notin Admins) =>
    /\ store = pre.store
    /\ GrantCalls = {} /\ InviteCalls = {} /\ NotifyCalls = {}
    /\ \A i \in Responses : last.log[i].text = UNAUTHORIZED /\ last.log[i].to = last.from
    /\ \/ FinalCall.call = "answer" /\ ~FinalCall.ok
       \/ Len(last.log) \in Responses

C1_Witness ==
  /\ last.kind = "callback" /\ last.from \notin Admins
  /\ Token(last.data).ok /\ Token(last.data).action = APPROVE
  /\ FinalCall.call = "edit_message_text" /\ FinalCall.text = UNAUTHORIZED /\ FinalCall.ok
  /\ store # {} /\ store = pre.store

\* C3: a decision callback of an admin that reaches the approve branch makes
\* exactly one grant call (for the token's user, 30 days), and a credential is
\* requested only after that grant has completed; in no run of any handler is a
\* credential requested without a completed grant before it.
C3_GrantBeforeCredential ==
  /\ ApproveDecision =>
       /\ Cardinality(GrantCalls) = 1
       /\ \A i \in GrantCalls : /\ last.log[i].to = Token(last.data).user_id
                                /\ last.log[i].days = DefaultDays
  /\ \A i \in InviteCalls : \E j \in GrantCalls : j < i /\ last.log[j].ok

C3_Witness ==
  /\ ApproveDecision
  /\ InviteCalls # {} /\ \A i \in InviteCalls : last.log[i].ok
  /\ \E i \in Responses : last.log[i].text = APPROVED

\* C4: when the credential request raises after a completed grant (in the
\* decision approve path or in the approve command), the store holds the grant
\* (expiry = time of the grant + days * 86400, no rollback), the handler's final
\* call shows the failure text to the admin, and no approval confirmation is
\* shown in that run.
C4_CredentialFailureSurfaced ==
  (\E i \in InviteCalls : ~last.log[i].ok) =>
    /\ \E j \in GrantCalls :
         /\ last.log[j].ok
         /\ Row(last.log[j].to, pre.now + last.log[j].days * SecondsPerDay) \in store
    /\ Len(last.log) \in Responses
    /\ FinalCall.text = FAILED /\ FinalCall.to = last.from
    /\ \A i \in Responses : last.log[i].text \notin {APPROVED, APPROVED_DAYS}

C4_Witness ==
  /\ ApproveDecision
  /\ \E i \in InviteCalls : ~last.log[i].ok
  /\ FinalCall.text = FAILED /\ FinalCall.ok
  /\ Row(Token(last.data).user_id, pre.now + DefaultDays * SecondsPerDay) \in store
  /\ Row(Token(last.data).user_id, pre.now + DefaultDays * SecondsPerDay) \notin pre.store

\* C2: once an approve decision for a token has completed its grant, the next
\* activation of the same token by an admin (the same or another) makes no
\* grant, requests no credential and leaves the store as it is.
C2_SecondDecisionRejected ==
  [][(/\ ApproveDecision
      /\ \E i \in GrantCalls : last.log[i].ok
      /\ last'.kind = "callback" /\ last'.from \in Admins /\ last'.data = last.data)
     => (GrantCalls' = {} /\ InviteCalls' = {} /\ store' = store)]_vars

\* C5: every inbound event (start, photo, callback, approve command) shows
\* exactly one text to its sender, whatever the store and the gateway do.
C5_ExactlyOneAcknowledgment ==
  last.kind \in {"start", "photo", "callback", "approve"} => Cardinality(Responses) = 1

\* C6: the store holds at most one row per user_id, and a completed grant
\* (user_id, days) leaves exactly the row expiry = time of the grant +
\* days * 86400 for that user, whatever row the user had before.
C6_LastGrantWins ==
  /\ \A r1, r2 \in store : r1.user_id = r2.user_id => r1 = r2
  /\ \A i \in GrantCalls : last.log[i].ok =>
       {r \in store : r.user_id = last.log[i].to}
         = {Row(last.log[i].to, pre.now + last.log[i].days * SecondsPerDay)}

\* a second grant for a user whose earlier grant has time left, by a shorter
\* duration: the new expiry is earlier than the one replaced
C6_Witness ==
  \E i \in GrantCalls, old \in pre.store :
    /\ last.log[i].ok /\ old.user_id = last.log[i].to
    /\ old.expiry_date > pre.now
    /\ pre.now > StartTime
    /\ Row(old.user_id, pre.now + last.log[i].days * SecondsPerDay) \in store
    /\ pre.now + last.log[i].days * SecondsPerDay < old.expiry_date
    /\ last.log[i].days > 0

Range(seq) == {seq[i] : i \in DOMAIN seq}

\* C7: get_expired_users(t) returns, each once, exactly the user_ids whose
\* stored expiry is <= t, returns a subset of that for every earlier time, and
\* leaves the store as it was.
C7_ExpiredExactly ==
  last.kind = "expired" =>
    /\ Range(last.ret) = {r.user_id : r \in {x \in store : x.expiry_date <= last.data}}
    /\ Len(last.ret) = Cardinality(Range(last.ret))
    /\ \A r \in store : r.expiry_date > last.data => r.user_id \notin Range(last.ret)
    /\ \A r \in store : r.expiry_date = last.data => r.user_id \in Range(last.ret)
    /\ \A t \in {x.expiry_date : x \in store} \cup {pre.now} :
         t <= last.data => Range(get_expired_users(store, t)) \subseteq Range(last.ret)
    /\ store = pre.store

C7_Witness ==
  /\ last.kind = "expired"
  /\ \E r \in store : r.expiry_date = last.data /\ r.user_id \in Range(last.ret)
  /\ \E r \in store : r.expiry_date > last.data /\ r.user_id \notin Range(last.ret)

\* a word of a command that int() rejects: a character that is no digit, other
\* than a sign in front of at least one more character
NonNumeric(w) ==
  \/ \E i \in DOMAIN w : /\ w[i] \notin Range(Digits)
                         /\ ~(i = 1 /\ w[i] \in {"+", "-"})
  \/ w \in {<<>>, <<"+">>, <<"-">>}

BadArgs(args) ==
  \/ Len(args) < 1
  \/ NonNumeric(args[1])
  \/ Len(args) > 1 /\ NonNumeric(args[2])

\* C8: an approve command of an admin whose user_id word is missing or not a
\* number, or whose days word is given and not a number, makes one call only,
\* the reply with the usage text (no word) or the validation text; the store
\* is left as it was, no grant is made and no credential requested.
C8_BadArgumentsRejected ==
  (last.kind = "approve" /\ last.from \in Admins /\ BadArgs(last.data)) =>
    /\ store = pre.store
    /\ GrantCalls = {} /\ InviteCalls = {} /\ NotifyCalls = {}
    /\ Len(last.log) = 1 /\ Responses = {1}
    /\ last.log[1].text = (IF Len(last.data) < 1 THEN USAGE ELSE INVALID)
    /\ last.log[1].to = last.from

\* a valid user_id with a days word that is no number, on a store with rows
C8_Witness ==
  /\ last.kind = "approve" /\ last.from \in Admins
  /\ Len(last.data) > 1 /\ ~NonNumeric(last.data[1]) /\ NonNumeric(last.data[2])
  /\ last.log[1].text = INVALID /\ last.log[1].ok
  /\ store # {} /\ store = pre.store

\* the last event was an approve command of an admin with valid arguments
ValidApprove ==
  last.kind = "approve" /\ last.from \in Admins /\ ~BadArgs(last.data)

ArgUser == PyInt(last.data[1]).val
ArgDays == IF Len(last.data) > 1 THEN PyInt(last.data[2]).val ELSE DefaultDays

\* C9: a valid approve command of an admin makes one grant call, for the
\* user_id and the days of its arguments (30 when days is omitted); unless the
\* database raised, the store then holds for user_id exactly the row expiry =
\* time of the grant + days * 86400, and any notification goes to user_id and
\* names that number of days.
C9_DirectApproveGrants ==
  ValidApprove =>
    /\ Cardinality(GrantCalls) = 1
    /\ \A i \in GrantCalls : last.log[i].to = ArgUser /\ last.log[i].days = ArgDays
    /\ (\A i \in GrantCalls : last.log[i].ok) =>
         {r \in store : r.user_id = ArgUser}
           = {Row(ArgUser, pre.now + ArgDays * SecondsPerDay)}
    /\ \A i \in NotifyCalls : last.log[i].to = ArgUser /\ last.log[i].days = ArgDays

\* "approve 555 7": the store holds {555: now + 7 days}, user 555 is notified
C9_Witness ==
  /\ ValidApprove
  /\ last.data = <<PyStr(555), PyStr(7)>>
  /\ Row(555, pre.now + 7 * SecondsPerDay) \in store
  /\ Row(555, pre.now + 7 * SecondsPerDay) \notin pre.store
  /\ \E i \in NotifyCalls : last.log[i].ok /\ last.log[i].to = 555 /\ last.log[i].days = 7

\* what a run of an approve path did, apart from the wording of its texts and
\* the call (edit_message_text or reply_text) that shows them to the admin
Shown(e) ==
  [to |-> e.to, success |-> e.text \in {APPROVED, APPROVED_DAYS},
   failure |-> e.text = FAILED, ok |-> e.ok]

Effects(o) ==
  [store |-> o.store, now |-> o.now, raised |-> o.raised,
   calls |-> [i \in DOMAIN o.log |->
                IF o.log[i].call \in {"reply_text", "edit_message_text"}
                  THEN Shown(o.log[i])
                ELSE IF o.log[i].call = "send_message"
                  THEN [to |-> o.log[i].to, uid |-> o.log[i].uid,
                        days |-> o.log[i].days, ok |-> o.log[i].ok]
                ELSE o.log[i]]]

\* the store and the credential requests a run leaves
StoreAndCredential(o) ==
  [store |-> o.store,
   invites |-> {e \in Range(o.log) : e.call = "create_chat_invite_link"}]

\* C10: from the store and the clock a valid approve command of an admin ran
\* on, and for every failure oracle and delay, the command's grant part and the
\* decision approve path with the command's days in place of 30 do the same:
\* the same store, the same calls in the same order (grant, credential request
\* with member_limit 1 and expiry days * 86400 after its clock read,
\* notification to the user, success or failure shown to the admin), the same
\* exception; with days = 30 the whole handlers leave the same store and the
\* same credential requests.  The run that happened is one of these.
C10_DirectApproveEquivalent ==
  ValidApprove =>
    /\ \A i \in DOMAIN Oracles, dt \in 0..MaxDelay :
         /\ Effects(CommandApprove(pre.store, pre.now, dt, last.from, ArgUser, ArgDays,
                                   Oracles[i]))
              = Effects(DecisionApprove(pre.store, pre.now, dt, last.from, ArgUser, ArgDays,
                                        Oracles[i]))
         /\ (ArgDays = DefaultDays /\ "answer" \notin Oracles[i]) =>
              StoreAndCredential(approve_command(pre.store, pre.now, dt, last.from,
                                                 last.data, Oracles[i]))
                = StoreAndCredential(handle_callback(pre.store, pre.now, dt, last.from,
                                       APPROVE \o <<COLON>> \o PyStr(ArgUser), Oracles[i]))
    /\ \E i \in DOMAIN Oracles, dt \in 0..MaxDelay :
         LET o == DecisionApprove(pre.store, pre.now, dt, last.from, ArgUser, ArgDays,
                                  Oracles[i])
         IN /\ Effects(o) = Effects([store |-> store, now |-> now, log |-> last.log,
                                     raised |-> last.raised])
            /\ \A e \in Range(o.log) : e.call = "create_chat_invite_link" =>
                 /\ e.member_limit = MemberLimit
                 /\ e.expire_date = now + ArgDays * SecondsPerDay

\* a 7-day approve command whose notification raised: the grant stands, the
\* credential was requested, the admin is shown the failure
C10_Witness ==
  /\ ValidApprove /\ ArgDays # DefaultDays
  /\ \E i \in InviteCalls : last.log[i].ok
  /\ \E i \in NotifyCalls : ~last.log[i].ok
  /\ FinalCall.text = FAILED
  /\ now > pre.now

\* the users that have a row in a table
Subscribers(st) == {r.user_id : r \in st}

\* the last event was a decision callback that reached the branch of line 159
\* with action = "decline"
DeclineDecision ==
  /\ last.kind = "callback"
  /\ last.from \in Admins
  /\ Token(last.data).ok /\ Token(last.data).action = DECLINE
  /\ last.log[1].ok

\* C11: a decline decision of an admin leaves the store as it was, also when
\* the user has a record; it makes no grant, requests no credential and sends
\* the user nothing: after query.answer() its one call is the edit of the
\* admin's message to the decline text.
C11_DeclineOnlyEdits ==
  DeclineDecision =>
    /\ store = pre.store
    /\ GrantCalls = {} /\ InviteCalls = {} /\ NotifyCalls = {}
    /\ Len(last.log) = 2
    /\ last.log[2].call = "edit_message_text" /\ last.log[2].text = DECLINED
    /\ last.log[2].to = last.from /\ last.log[2].uid = Token(last.data).user_id
    /\ \A i \in DOMAIN last.log : last.log[i].to # Token(last.data).user_id

\* a decline for a user who holds a 30-day grant: the grant stays
C11_Witness ==
  /\ DeclineDecision /\ last.log[2].ok
  /\ \E r \in store : /\ r.user_id = Token(last.data).user_id
                      /\ r.expiry_date >= StartTime + DefaultDays * SecondsPerDay
  /\ store = pre.store

\* C12: a photo submission makes one send_photo per entry of ADMIN_IDS, in
\* order, each carrying the approve and decline tokens of the sender, whatever
\* subset of them raises; the reply to the sender is its final call, made after
\* all of them; the store is left as it was.
C12_FanOutIsolated ==
  last.kind = "photo" =>
    /\ Len(last.log) = Len(ADMIN_IDS) + 1
    /\ \A i \in DOMAIN ADMIN_IDS :
         /\ last.log[i].call = "send_photo" /\ last.log[i].to = ADMIN_IDS[i]
         /\ Token(last.log[i].data[1])
              = [ok |-> TRUE, action |-> APPROVE, user_id |-> last.from]
         /\ Token(last.log[i].data[2])
              = [ok |-> TRUE, action |-> DECLINE, user_id |-> last.from]
    /\ FinalCall.call = "reply_text" /\ FinalCall.text = FORWARDED
    /\ FinalCall.to = last.from
    /\ store = pre.store

\* the delivery to the first admin raised, the one to the second did not, and
\* the sender was answered
C12_Witness ==
  /\ last.kind = "photo"
  /\ ~last.log[1].ok /\ last.log[Len(ADMIN_IDS)].ok
  /\ FinalCall.call = "reply_text" /\ FinalCall.ok
  /\ store # {}

\* C13: when add_subscription raises in an approve decision or an approve
\* command, the admin is shown no confirmation and is shown the failure.
C13_StoreErrorReported ==
  (\E i \in GrantCalls : ~last.log[i].ok) =>
    /\ \A i \in Responses : last.log[i].text \notin {APPROVED, APPROVED_DAYS}
    /\ \E i \in Responses : last.log[i].to = last.from /\ last.log[i].text = FAILED

\* C16: remove_subscription(user_id) leaves exactly the rows of the other
\* users (so the table as it was when user_id had no row) and does not raise.
C16_RevokeFrame ==
  last.kind = "revoke" =>
    /\ \A r \in pre.store : r.user_id # last.data => r \in store
    /\ \A r \in store : r \in pre.store /\ r.user_id # last.data
    /\ (last.data \notin Subscribers(pre.store)) => store = pre.store
    /\ ~last.raised

\* a revoke for a user without a row, on a table that holds another user's row
C16_Witness ==
  /\ last.kind = "revoke"
  /\ last.data \notin Subscribers(pre.store)
  /\ pre.store # {} /\ store = pre.store

\* C19: whatever ran last, other than remove_subscription, every user who had
\* a row before it has a row after it; remove_subscription takes the row of
\* its user only.
C19_OnlyRevokeDeletes ==
  /\ last.kind # "revoke" => Subscribers(pre.store) \subseteq Subscribers(store)
  /\ last.kind = "revoke" => Subscribers(pre.store) \ {last.data} \subseteq Subscribers(store)

\* an expiry query as of a time past a row's expiry returns the user, whose row
\* is still there
C19_Witness ==
  /\ last.kind = "expired"
  /\ \E r \in store : r.expiry_date < last.data /\ r.user_id \in Range(last.ret)
  /\ Range(last.ret) \subseteq Subscribers(store)

\* C20: after a completed grant of an approve decision or of a valid approve
\* command, the user's stored expiry is later than the time of the grant, and
\* get_expired_users as of that time does not return the user.
C20_ExpiryInFuture ==
  \A i \in GrantCalls : last.log[i].ok =>
    /\ \A r \in store : r.user_id = last.log[i].to => r.expiry_date > pre.now
    /\ last.log[i].to \notin Range(get_expired_users(store, pre.now))

(* --------------------- claims on concurrent requests ------------------- *)

\* the threads that serve a webhook request
WebThreads == {t \in Threads : thr[t].req # 0 /\ Req(t).web}

\* every call of the handler of t has been made, or the body was unreadable
Processed(t) == ~Req(t).json \/ thr[t].pos > Len(Req(t).script)

\* C14: webhook answers a pushed event only after the event has been processed
\* to its end, and whenever it answers, the status is 200, also when reading
\* the body or processing the event raised.
C14_AckAfterProcessing ==
  \A t \in WebThreads :
    /\ thr[t].status \in {0, HttpOK}
    /\ (thr[t].status # 0 => thr[t].pc = "done" /\ Processed(t))
    /\ (thr[t].pc = "done" => thr[t].status = HttpOK)

\* one request answered 200 after sqlite raised in its handler, another after
\* its body could not be read
C14_Witness ==
  \E t, u \in WebThreads :
    /\ thr[t].pc = "done" /\ thr[t].raised /\ Req(t).json /\ thr[t].status = HttpOK
    /\ thr[u].pc = "done" /\ ~Req(u).json /\ thr[u].status = HttpOK

GrantCommits == {k \in DOMAIN commits : commits[k].call = "add_subscription"}

ArrivalIndex(t) == CHOOSE i \in DOMAIN arrivals : arrivals[i] = t

\* C15: two approve events for one user that arrive one after the other have
\* their grants applied in arrival order: once both requests are answered and
\* nothing else has written, the row of the user is the one the later arrival
\* wrote.
C15_ArrivalOrder ==
  \A i, j \in GrantCommits :
    ( /\ commits[i].user_id = commits[j].user_id
      /\ ArrivalIndex(commits[i].thread) < ArrivalIndex(commits[j].thread)
      /\ Len(commits) = Cardinality({i, j})
      /\ \A t \in Threads : thr[t].pc \in {"idle", "done"} )
    => Row(commits[j].user_id, commits[j].expiry_date) \in store

InDb == {t \in Threads : thr[t].pc \in DbSection}

Committed == {commits[k].user_id : k \in DOMAIN commits}

LastCommit(u) ==
  LET ks == {k \in DOMAIN commits : commits[k].user_id = u}
  IN commits[CHOOSE k \in ks : \A m \in ks : m <= k]

\* C17: at most one thread is inside a database section of add_subscription,
\* remove_subscription or get_expired_users; the table never holds two rows
\* for a user, and after grants for one user in any interleaving the row of
\* the user is the one written by the grant that committed last.
C17_Serialized ==
  /\ Cardinality(InDb) <= 1
  /\ \A u \in Subscribers(store) : Cardinality({r \in store : r.user_id = u}) = 1
  /\ \A u \in Committed :
       LastCommit(u).call = "add_subscription"
       => {r \in store : r.user_id = u} = {Row(u, LastCommit(u).expiry_date)}

\* two grants for one user have committed with different expiries while a
\* row of the user was there before; only the later one is in the table
C17_Witness ==
  /\ Len(commits) = 2
  /\ GrantCommits = {1, 2}
  /\ commits[1].user_id = commits[2].user_id
  /\ commits[1].expiry_date # commits[2].expiry_date
  /\ \A t \in Threads : thr[t].pc = "done"
  /\ \E r \in pre.store : r.user_id = commits[2].user_id
  /\ {r \in store : r.user_id = commits[2].user_id}
       = {Row(commits[2].user_id, commits[2].expiry_date)}

\* C18: no thread has a call of the Messaging Gateway in flight while it
\* holds db_lock, and the lock is held only by a thread inside a database
\* section: it is released when the section is left, also by an exception.
C18_NoCallUnderLock ==
  /\ \A t \in Threads : thr[t].pc = "call" => lock # t
  /\ lock # 0 => thr[lock].pc \in DbSection

\* a gateway call that will fail is in flight in one request while another
\* request is inside its database section
C18_Witness ==
  \E a, b \in Threads :
    /\ a # b
    /\ thr[a].pc = "call" /\ ~Step(a).ok
    /\ lock = b /\ thr[b].pc = "execute"

====
